---- MODULE Spec2Model ----
(***************************************************************************)
(* Model of the mcp-fal server: the generate_image / list_models tool-call *)
(* handler (src/src/index.ts), the fal.ai image provider                   *)
(* (src/unnamed/part_003, the provider with reference-image upload) and    *)
(* the retry / timeout utilities (src/unnamed/part_004).                   *)
(*                                                                         *)
(* JavaScript strings are TLA+ strings; TLC evaluates Len, SubSeq and \o   *)
(* on them, so prefix tests, substring tests and template literals are     *)
(* computed character by character as the code computes them.              *)
(***************************************************************************)
EXTENDS Integers, Sequences, FiniteSets, TLC

(***************************************************************************)
(* Bounds of the model                                                     *)
(***************************************************************************)
\* longest reference-image list whose elements are chosen freely
MaxMixedRefs == 2
\* largest number of images in an upstream response
MaxImages == 3

(***************************************************************************)
(* String primitives of the JavaScript runtime                             *)
(***************************************************************************)
\* String.prototype.startsWith
StartsWith(s, p) == Len(p) <= Len(s) /\ SubSeq(s, 1, Len(p)) = p

\* String.prototype.includes
Includes(s, p) == \E i \in 1..(Len(s) - Len(p) + 1) : SubSeq(s, i, i + Len(p) - 1) = p

UpperChars == "ABCDEFGHIJKLMNOPQRSTUVWXYZ"
LowerChars == "abcdefghijklmnopqrstuvwxyz"

\* the lower-case letter of every upper-case letter
LowerOf ==
  [u \in {SubSeq(UpperChars, k, k) : k \in 1..26} |->
     LET k == CHOOSE k \in 1..26 : SubSeq(UpperChars, k, k) = u
     IN SubSeq(LowerChars, k, k)]

LowerChar(c) == IF c \in DOMAIN LowerOf THEN LowerOf[c] ELSE c

RECURSIVE ToLowerCase(_)
\* String.prototype.toLowerCase
ToLowerCase(s) ==
  IF Len(s) = 0 THEN ""
  ELSE LowerChar(SubSeq(s, 1, 1)) \o ToLowerCase(SubSeq(s, 2, Len(s)))

RECURSIVE Trim(_)
\* String.prototype.trim (blanks are the only white space of the model)
Trim(s) ==
  IF Len(s) = 0 THEN ""
  ELSE IF SubSeq(s, 1, 1) = " " THEN Trim(SubSeq(s, 2, Len(s)))
  ELSE IF SubSeq(s, Len(s), Len(s)) = " " THEN Trim(SubSeq(s, 1, Len(s) - 1))
  ELSE s

Digits == "0123456789"

RECURSIVE NumToString(_)
\* decimal rendering of a non-negative integer inside a template literal
NumToString(n) ==
  IF n < 10 THEN SubSeq(Digits, n + 1, n + 1)
  ELSE NumToString(n \div 10) \o SubSeq(Digits, (n % 10) + 1, (n % 10) + 1)

RECURSIVE Join(_, _)
\* Array.prototype.join
Join(a, sep) ==
  IF Len(a) = 0 THEN ""
  ELSE IF Len(a) = 1 THEN a[1]
  ELSE a[1] \o sep \o Join(Tail(a), sep)

\* Array.prototype.includes on an array of strings
ArrayIncludes(a, x) == \E k \in 1..Len(a) : a[k] = x

Min(a, b) == IF a <= b THEN a ELSE b

(***************************************************************************)
(* JavaScript values of the tool-call arguments                            *)
(***************************************************************************)
Undefined == [t |-> "undefined", s |-> ""]
Str(x) == [t |-> "string", s |-> x]
Num(x) == [t |-> "number", s |-> x]

\* ToBoolean of a value: undefined, "" and 0 are falsy
Truthy(v) ==
  \/ v.t = "string" /\ v.s # ""
  \/ v.t = "number" /\ v.s # "0"

(***************************************************************************)
(* types.ts                                                                *)
(***************************************************************************)
FAL_MODEL_IDS ==
  [ NANO_BANANA          |-> "fal-ai/nano-banana",
    NANO_BANANA_PRO      |-> "fal-ai/nano-banana-pro",
    NANO_BANANA_EDIT     |-> "fal-ai/nano-banana/edit",
    NANO_BANANA_PRO_EDIT |-> "fal-ai/nano-banana-pro/edit" ]

SUPPORTED_IMAGE_MODELS == <<"nano-banana", "nano-banana-pro">>

isSupportedImageModel(model) == ArrayIncludes(SUPPORTED_IMAGE_MODELS, model)

ASPECT_RATIOS ==
  <<"1:1", "2:3", "3:2", "3:4", "4:3", "4:5", "5:4", "9:16", "16:9", "21:9">>

ASPECT_RATIOS_WITH_AUTO == <<"auto">> \o ASPECT_RATIOS

RESOLUTIONS == <<"1K", "2K", "4K">>

MaxRefsFast == 3
MaxRefsPro == 14

\* the two ceilings exchanged
MAX_REFERENCE_IMAGES_Swapped(model) ==
  IF model = "nano-banana" THEN [has |-> TRUE, n |-> MaxRefsPro]
  ELSE IF model = "nano-banana-pro" THEN [has |-> TRUE, n |-> MaxRefsFast]
  ELSE [has |-> FALSE, n |-> 0]

\* MAX_REFERENCE_IMAGES[model]; 0 with has = FALSE stands for the undefined
\* that the lookup yields for a key that is not in the table
MAX_REFERENCE_IMAGES(model) ==
  IF model = "nano-banana" THEN [has |-> TRUE, n |-> MaxRefsFast]
  ELSE IF model = "nano-banana-pro" THEN [has |-> TRUE, n |-> MaxRefsPro]
  ELSE [has |-> FALSE, n |-> 0]

(***************************************************************************)
(* Inputs of the model                                                     *)
(***************************************************************************)
ToolNames == {"generate_image", "list_models", "delete_image"}

\* prompt: missing, empty, blank, a text, a number
PromptArgs == {Undefined, Str(""), Str("  "), Str("a red cube"), Num("42")}

\* output_path: missing, blank, a number, a path
OutputPathArgs == {Undefined, Str(" "), Num("7"), Str("/tmp/x.png")}

\* model: missing, the two supported names, an unknown name, the empty string
ModelArgs ==
  {Undefined, Str("nano-banana"), Str("nano-banana-pro"), Str("dall-e"), Str("")}

\* aspect_ratio; "" stands for a missing (or empty) value: the code only tests
\* the value for truthiness before it uses it
AspectArgs == {"", "auto", "16:9", "7:7"}

\* reference images: a remote URL, a well-formed data URL, a malformed data
\* URL, a local path
RefSamples ==
  {"https://x/y.jpg", "data:image/png;base64,iVBOR", "data:image/png,iVBOR",
   "/home/user/image.jpg"}

RECURSIVE SeqsUpTo(_, _)
SeqsUpTo(S, n) ==
  IF n = 0 THEN {<<>>}
  ELSE LET shorter == SeqsUpTo(S, n - 1)
       IN shorter \cup {Append(q, x) : q \in shorter, x \in S}

UrlList(n) == [i \in 1..n |-> "https://x/y.jpg"]

\* the lists of reference images: every short list, and lists of remote URLs
\* one longer than each model's ceiling
RefLists ==
  SeqsUpTo(RefSamples, MaxMixedRefs)
    \cup {UrlList(MaxRefsFast), UrlList(MaxRefsFast + 1),
          UrlList(MaxRefsPro), UrlList(MaxRefsPro + 1)}

\* reference_images: missing, or an array of strings
RefArgs == {[t |-> "undefined", a |-> <<>>]} \cup {[t |-> "array", a |-> l] : l \in RefLists}

NoArgs ==
  [prompt |-> Undefined, output_path |-> Undefined, model |-> Undefined,
   reference_images |-> [t |-> "undefined", a |-> <<>>], aspect_ratio |-> ""]

NoOptions ==
  [prompt |-> "", outputPath |-> "", model |-> "", referenceImages |-> <<>>,
   aspectRatio |-> "", outputFormat |-> "", resolution |-> "", numImages |-> 0,
   enableWebSearch |-> FALSE]

ToolArgs ==
  [prompt : PromptArgs, output_path : OutputPathArgs, model : ModelArgs,
   reference_images : RefArgs, aspect_ratio : AspectArgs]

\* the options of a direct call of FalImageProvider.generate by a typed
\* caller; an option that is left out has the tag "undefined"
\* outputPath: with an extension, without one, and without one under a
\* directory whose name has a dot
OutputPaths == {"/tmp/x.png", "/tmp/x", "/tmp.d/x"}

UndefinedNum == [t |-> "undefined", n |-> 0]
UndefinedBool == [t |-> "undefined", b |-> FALSE]
UndefinedArray == [t |-> "undefined", a |-> <<>>]

ProviderOptions ==
  [prompt : {"add a hat"}, outputPath : OutputPaths,
   model : {Undefined, Str("nano-banana"), Str("nano-banana-pro")},
   referenceImages : {UndefinedArray, [t |-> "array", a |-> <<"https://x/y.jpg">>]},
   aspectRatio : {"", "16:9"},
   outputFormat : {Undefined},
   resolution : {Undefined, Str("1K"), Str("2K"), Str("4K")},
   numImages : {UndefinedNum, [t |-> "number", n |-> MaxImages]},
   enableWebSearch : {UndefinedBool, [t |-> "boolean", b |-> TRUE]}]

\* an environment variable: unset, empty, or one of two keys
EnvValues == {Undefined, Str(""), Str("key-a"), Str("key-b")}

Envs == [FAL_KEY : EnvValues, FAL_API_KEY : EnvValues]

\* the environment of a server that is up
RunningEnv == [FAL_KEY |-> Str("key-a"), FAL_API_KEY |-> Undefined]

\* the tool calls made to a server that has just started
StartupArgs ==
  [prompt : {Str(""), Str("a red cube")}, output_path : {Str("/tmp/x.png")},
   model : {Undefined},
   reference_images : {UndefinedArray, [t |-> "array", a |-> <<"https://x/y.jpg">>]},
   aspect_ratio : {""}]

\* the texts of the failures handed to the error classifiers
FailureTexts ==
  {"Invalid API key", "Rate limit exceeded (429)", "blocked by safety filter",
   "Internal Server Error", "unauthorized", "quota exceeded", "too many requests",
   "content policy violation", "Unprocessable Entity", "invalid image",
   "TIMEOUT: Operation timed out after 180000ms", "request timed out", "",
   "API key quota exceeded", "TIMEOUT: 422 Unprocessable Entity"}

\* the HTTP status an upstream error carries, 0 when it has none
FailureStatuses == {0, 401, 422, 429, 500}

\* the values a catch clause can receive: an Error with a message and perhaps
\* a status, a string, a number, undefined
Failures ==
  {[kind |-> "Error", text |-> m, status |-> c] : m \in FailureTexts, c \in FailureStatuses}
    \cup {[kind |-> "string", text |-> m, status |-> 0] : m \in FailureTexts}
    \cup {[kind |-> "number", text |-> n, status |-> 0] : n \in {"429", "7"}}
    \cup {[kind |-> "undefined", text |-> "", status |-> 0]}

NoFailure == [kind |-> "none", text |-> "", status |-> 0]

\* the beginnings and the ends of the inputs handed to getImageInputType
InputHeads ==
  {"", "data:", "Data:", " data:", "data", "http://", "https://", "HTTP://", "http:/",
   "https:/", "ftp://", "/home/", "./", "C:\\"}

InputTails == {"", "x.png", "image/png;base64,iVBOR", "http://x/y.jpg", "data:a"}

ImageInputs == {h \o t : h \in InputHeads, t \in InputTails}

\* the overlapping calls, and the output paths they are given
CallIds == {1, 2}

OverlapPaths == {"/tmp/x.png", "/tmp/y.png"}

\* failures of the upstream call (the message of the thrown error)
UpstreamErrors ==
  {"Rate limit exceeded (429)", "Invalid API key", "Unprocessable Entity",
   "Internal Server Error", "503 Service Unavailable",
   "getaddrinfo ENOTFOUND queue.fal.run"}

\* failures of fal.storage.upload
UploadErrors == {"fetch failed"}

\* how long one upstream attempt runs before it settles, in ms
AttemptDurations == {1000, 100000}

(***************************************************************************)
(* retry.ts                                                                *)
(***************************************************************************)
\* DEFAULT_RETRY_OPTIONS
DefaultMaxRetries == 3
InitialDelayMs == 1000
MaxDelayMs == 30000
BackoffMultiplier == 2

DEFAULT_RETRY_OPTIONS ==
  [ maxRetries |-> DefaultMaxRetries,
    initialDelayMs |-> InitialDelayMs,
    maxDelayMs |-> MaxDelayMs,
    backoffMultiplier |-> BackoffMultiplier,
    retryableErrors |->
      <<"RATE_LIMIT", "429", "503", "502", "ECONNRESET", "ETIMEDOUT", "ENOTFOUND",
        "temporarily unavailable", "too many requests">> ]

\* every failure taken for a transient one
isRetryable_Always(message, retryableErrors) ==
  Len(retryableErrors) >= 0

\* isRetryable(error, retryableErrors), on the message of the error
isRetryable(message, retryableErrors) ==
  LET lowerMessage == ToLowerCase(message)
  IN \E k \in 1..Len(retryableErrors) :
        Includes(lowerMessage, ToLowerCase(retryableErrors[k]))

\* the rejection of withTimeout's timer
TimeoutError(timeoutMs) ==
  "TIMEOUT: Operation timed out after " \o NumToString(timeoutMs) \o "ms"

(***************************************************************************)
(* providers/fal-image.ts                                                  *)
(***************************************************************************)
DEFAULT_TIMEOUT_MS == 180000
UPLOAD_TIMEOUT_MS == 30000

\* the options that generate() passes to withRetry, over the defaults
GenerateMaxRetries == 2

\* the override of maxRetries forgotten: the default applies
RetryOpts_DefaultMaxRetries ==
  [DEFAULT_RETRY_OPTIONS EXCEPT
     !.retryableErrors = <<"RATE_LIMIT", "429", "503", "502", "ECONNRESET", "ETIMEDOUT">>]

\* "TIMEOUT" among the retryable patterns
RetryOpts_TimeoutRetryable ==
  [DEFAULT_RETRY_OPTIONS EXCEPT
     !.maxRetries = GenerateMaxRetries,
     !.retryableErrors =
        <<"RATE_LIMIT", "429", "503", "502", "ECONNRESET", "ETIMEDOUT", "TIMEOUT">>]

RetryOpts ==
  [DEFAULT_RETRY_OPTIONS EXCEPT
     !.maxRetries = GenerateMaxRetries,
     !.retryableErrors = <<"RATE_LIMIT", "429", "503", "502", "ECONNRESET", "ETIMEDOUT">>]

\* the test for remote URLs left out: every other input is a local file
getImageInputType_NoUrl(input) ==
  IF StartsWith(input, "data:") THEN "data_url"
  ELSE "local_file"

\* the prefixes compared without regard to case
getImageInputType_IgnoreCase(input) ==
  IF StartsWith(ToLowerCase(input), "data:") THEN "data_url"
  ELSE IF StartsWith(ToLowerCase(input), "http://")
            \/ StartsWith(ToLowerCase(input), "https://") THEN "url"
  ELSE "local_file"

getImageInputType(input) ==
  IF StartsWith(input, "data:") THEN "data_url"
  ELSE IF StartsWith(input, "http://") \/ StartsWith(input, "https://") THEN "url"
  ELSE "local_file"

\* position of the first ";" of s, 0 when there is none
FirstSemicolon(s) ==
  IF \E i \in 1..Len(s) : SubSeq(s, i, i) = ";"
  THEN CHOOSE i \in 1..Len(s) :
         /\ SubSeq(s, i, i) = ";"
         /\ \A j \in 1..(i - 1) : SubSeq(s, j, j) # ";"
  ELSE 0

\* parseDataUrl: whether /^data:([^;]+);base64,(.+)$/ matches
DataUrlMatches(dataUrl) ==
  /\ StartsWith(dataUrl, "data:")
  /\ LET rest == SubSeq(dataUrl, 6, Len(dataUrl))
         j == FirstSemicolon(rest)
     IN /\ j > 1
        /\ StartsWith(SubSeq(rest, j, Len(rest)), ";base64,")
        /\ Len(rest) > j + 7

\* the two branches of hasReferenceImages exchanged
getModelId_Swapped(model, hasReferenceImages) ==
  IF hasReferenceImages
  THEN IF model = "nano-banana-pro"
       THEN FAL_MODEL_IDS.NANO_BANANA_PRO
       ELSE FAL_MODEL_IDS.NANO_BANANA
  ELSE IF model = "nano-banana-pro"
       THEN FAL_MODEL_IDS.NANO_BANANA_PRO_EDIT
       ELSE FAL_MODEL_IDS.NANO_BANANA_EDIT

\* getModelId(model, hasReferenceImages)
getModelId(model, hasReferenceImages) ==
  IF hasReferenceImages
  THEN IF model = "nano-banana-pro"
       THEN FAL_MODEL_IDS.NANO_BANANA_PRO_EDIT
       ELSE FAL_MODEL_IDS.NANO_BANANA_EDIT
  ELSE IF model = "nano-banana-pro"
       THEN FAL_MODEL_IDS.NANO_BANANA_PRO
       ELSE FAL_MODEL_IDS.NANO_BANANA

\* the destructuring of generate(options) with its defaults
GenerateDefaults(options) ==
  [ prompt |-> options.prompt,
    outputPath |-> options.outputPath,
    model |-> IF options.model.t = "undefined" THEN "nano-banana" ELSE options.model.s,
    referenceImages |->
      IF options.referenceImages.t = "undefined" THEN <<>> ELSE options.referenceImages.a,
    aspectRatio |-> options.aspectRatio,
    outputFormat |->
      IF options.outputFormat.t = "undefined" THEN "png" ELSE options.outputFormat.s,
    resolution |->
      IF options.resolution.t = "undefined" THEN "1K" ELSE options.resolution.s,
    numImages |-> IF options.numImages.t = "undefined" THEN 1 ELSE options.numImages.n,
    enableWebSearch |->
      IF options.enableWebSearch.t = "undefined" THEN FALSE ELSE options.enableWebSearch.b ]

AutoAspectError ==
  "Aspect ratio \"auto\" is only valid when using reference_images. For text-to-image, use: "
    \o Join(ASPECT_RATIOS, ", ")

InvalidAspectError(aspectRatio) ==
  "Invalid aspect ratio \"" \o aspectRatio \o "\". Valid options: "
    \o Join(ASPECT_RATIOS_WITH_AUTO, ", ")

MaxRefsError(maxImages, model) ==
  "Maximum " \o NumToString(maxImages) \o " reference images allowed for " \o model

ResolutionError == "Only nano-banana-pro supports 2K and 4K resolution"

\* `aspectRatio === "auto" && hasReferenceImages`: the condition inverted
AutoWithoutReferences_Inverted(o) ==
  o.aspectRatio = "auto" /\ Len(o.referenceImages) > 0

\* `aspectRatio === "auto" && !hasReferenceImages`
AutoWithoutReferences(o) ==
  o.aspectRatio = "auto" /\ ~(Len(o.referenceImages) > 0)

\* `isPro && resolution !== "1K"`: the condition inverted
ResolutionUnsupported_Inverted(o) ==
  o.model = "nano-banana-pro" /\ o.resolution # "1K"

\* `!isPro && resolution !== "1K"`
ResolutionUnsupported(o) ==
  ~(o.model = "nano-banana-pro") /\ o.resolution # "1K"

\* the validation at the head of generate(): the message of the error it
\* throws, "" when the options pass
ValidationError(o) ==
  LET maxImages == MAX_REFERENCE_IMAGES(o.model)
  IN IF o.aspectRatio # "" /\ AutoWithoutReferences(o)
       THEN AutoAspectError
     ELSE IF o.aspectRatio # "" /\ ~ArrayIncludes(ASPECT_RATIOS_WITH_AUTO, o.aspectRatio)
       THEN InvalidAspectError(o.aspectRatio)
     ELSE IF maxImages.has /\ Len(o.referenceImages) > maxImages.n
       THEN MaxRefsError(maxImages.n, o.model)
     ELSE IF ResolutionUnsupported(o)
       THEN ResolutionError
     ELSE ""

\* the categorisation in the catch block of generate()
ErrorType(errorMessage) ==
  IF \/ Includes(errorMessage, "API key")
     \/ Includes(errorMessage, "unauthorized")
     \/ Includes(errorMessage, "authentication")
    THEN "AUTH_ERROR"
  ELSE IF \/ Includes(errorMessage, "quota")
          \/ Includes(errorMessage, "rate")
          \/ Includes(errorMessage, "429")
          \/ Includes(errorMessage, "too many requests")
    THEN "RATE_LIMIT"
  ELSE IF \/ Includes(errorMessage, "safety")
          \/ Includes(errorMessage, "blocked")
          \/ Includes(errorMessage, "content policy")
    THEN "CONTENT_BLOCKED"
  ELSE IF Includes(errorMessage, "TIMEOUT")
    THEN "TIMEOUT"
  ELSE IF Includes(errorMessage, "Unprocessable Entity") \/ Includes(errorMessage, "422")
    THEN "INVALID_REQUEST"
  ELSE "GENERATION_ERROR"

\* `error instanceof Error ? error.message : String(error)`
MessageOf(error) ==
  IF error.kind = "undefined" THEN "undefined" ELSE error.text

\* categorizeError of types.ts: the category of the MCPError it returns
categorizeError(error) ==
  LET message == MessageOf(error)
      status == error.status
  IN IF status = 401 \/ Includes(message, "API key") \/ Includes(message, "unauthorized")
       THEN "AUTH_ERROR"
     ELSE IF status = 429 \/ Includes(message, "quota") \/ Includes(message, "rate")
       THEN "RATE_LIMIT"
     ELSE IF Includes(message, "safety") \/ Includes(message, "blocked")
       THEN "SAFETY_BLOCK"
     ELSE IF status = 422 \/ Includes(message, "422") \/ Includes(message, "invalid")
       THEN "VALIDATION_ERROR"
     ELSE IF Includes(message, "TIMEOUT") \/ Includes(message, "timed out")
       THEN "TIMEOUT"
     ELSE "API_ERROR"

\* the error that the catch block of generate() throws
CategorizedError(errorMessage) == ErrorType(errorMessage) \o ": " \o errorMessage

\* `input.resolution = resolution` outside of `if (isPro)`
BuildInput_ResolutionAlways(o, processed) ==
  [ keys |-> {"prompt", "output_format", "num_images", "resolution"}
               \cup (IF o.aspectRatio # "" THEN {"aspect_ratio"} ELSE {})
               \cup (IF Len(processed) > 0 THEN {"image_urls"} ELSE {})
               \cup (IF o.model = "nano-banana-pro" /\ o.enableWebSearch
                     THEN {"enable_web_search"} ELSE {}),
    prompt |-> o.prompt,
    output_format |-> o.outputFormat,
    num_images |-> o.numImages,
    aspect_ratio |-> o.aspectRatio,
    image_urls |-> processed,
    resolution |-> o.resolution ]

\* the payload of the upstream call
BuildInput(o, processed) ==
  [ keys |-> {"prompt", "output_format", "num_images"}
               \cup (IF o.aspectRatio # "" THEN {"aspect_ratio"} ELSE {})
               \cup (IF Len(processed) > 0 THEN {"image_urls"} ELSE {})
               \cup (IF o.model = "nano-banana-pro" THEN {"resolution"} ELSE {})
               \cup (IF o.model = "nano-banana-pro" /\ o.enableWebSearch
                     THEN {"enable_web_search"} ELSE {}),
    prompt |-> o.prompt,
    output_format |-> o.outputFormat,
    num_images |-> o.numImages,
    aspect_ratio |-> o.aspectRatio,
    image_urls |-> processed,
    resolution |-> IF o.model = "nano-banana-pro" THEN o.resolution ELSE "" ]

NoInput ==
  [ keys |-> {}, prompt |-> "", output_format |-> "", num_images |-> 0,
    aspect_ratio |-> "", image_urls |-> <<>>, resolution |-> "" ]

\* position of the last "." of s, 0 when there is none
LastDot(s) ==
  IF \E i \in 1..Len(s) : SubSeq(s, i, i) = "."
  THEN CHOOSE i \in 1..Len(s) :
         /\ SubSeq(s, i, i) = "."
         /\ \A j \in (i + 1)..Len(s) : SubSeq(s, j, j) # "."
  ELSE 0

\* the suffix `_${i}` in place of `_${i + 1}`
NumberedPath_ZeroBased(outputPath, i) ==
  LET k == LastDot(outputPath)
  IN IF k > 0 /\ k < Len(outputPath)
     THEN SubSeq(outputPath, 1, k - 1) \o "_" \o NumToString(i)
            \o SubSeq(outputPath, k, Len(outputPath))
     ELSE outputPath

\* outputPath.replace(/(\.[^.]+)$/, `_${i + 1}$1`), i the 0-based image index
NumberedPath(outputPath, i) ==
  LET k == LastDot(outputPath)
  IN IF k > 0 /\ k < Len(outputPath)
     THEN SubSeq(outputPath, 1, k - 1) \o "_" \o NumToString(i + 1)
            \o SubSeq(outputPath, k, Len(outputPath))
     ELSE outputPath

\* the URL that fal.storage.upload returns for the i-th reference image
UploadedUrl(i) == "https://v3.fal.media/files/ref" \o NumToString(i)

\* the URL of the i-th image (1-based) of an upstream response
ImageUrl(i) == "https://v3.fal.media/files/out" \o NumToString(i)

\* the bytes that a GET of the URL returns
BytesOf(url) == "bytes of " \o url

\* the upstream responses: no images field, or 0..MaxImages images
Responses ==
  {[hasImages |-> FALSE, images |-> <<>>]}
    \cup {[hasImages |-> TRUE, images |-> [i \in 1..n |-> ImageUrl(i)]] : n \in 0..MaxImages}

NoResponse == [hasImages |-> FALSE, images |-> <<>>]

\* `!response.images`: the test of the length left out
ResponseHasNoImage_AbsentOnly(r) == ~r.hasImages

\* `!response.images || response.images.length === 0`
ResponseHasNoImage(r) == ~r.hasImages \/ Len(r.images) = 0

(***************************************************************************)
(* State                                                                   *)
(***************************************************************************)
VARIABLES
  env,           \* process.env: the values of FAL_KEY and FAL_API_KEY
  credential,    \* the key the provider was configured with ("" before startup)
  pc,            \* start, exited, or where the call is: idle, refs, invoke, sleep,
                 \* download, done
  entry,         \* how generate() was entered: none, tool, provider
  toolName,      \* request.params.name of the tool call
  hasArgs,       \* whether request.params.arguments is present
  args,          \* request.params.arguments
  opts,          \* the options of generate() after its defaults
  modelId,       \* the endpoint that getModelId selected
  processedUrls, \* processedUrls of processReferenceImages
  uploads,       \* the 1-based indices of the inputs fal.storage.upload was called for
  input,         \* the payload of the upstream call
  attempt,       \* attempt of withRetry
  delay,         \* delay of withRetry
  lastError,     \* lastError of withRetry ("" before the first failure)
  lastOutcome,   \* how the last attempt ended: none, response, error, timeout
  upstreamCalls, \* how many times fal.subscribe was called
  sleeps,        \* the backoff sleeps of withRetry, in order
  elapsed,       \* ms since the first attempt started
  response,      \* the upstream response
  nextImage,     \* 0-based index of the next image to download
  files,         \* the files written: set of [path, bytes], one per path
  writes,        \* the writeFileSync calls, in order
  usage,         \* how many times logger.logUsage was called
  result,        \* the outcome of the call
  failure,       \* the value handed to an error classifier
  classifier,    \* the classifier that ran last: "catch" or "categorizeError"
  category,      \* the category it gave
  imageInput,    \* the reference image handed to getImageInputType
  imageInputType,     \* the type it returned
  calls,         \* overlapping generate_image calls: the local state of each
  disk           \* the files that the overlapping calls share

vars ==
  <<env, credential, pc, entry, toolName, hasArgs, args, opts, modelId, processedUrls,
    uploads, input, attempt, delay, lastError, lastOutcome, upstreamCalls, sleeps,
    elapsed, response, nextImage, files, writes, usage, result, failure, classifier,
    category, imageInput, imageInputType, calls, disk>>

processVars == <<env, credential>>
classifyVars == <<failure, classifier, category>>
inputTypeVars == <<imageInput, imageInputType>>
overlapVars == <<calls, disk>>
retryVars == <<attempt, delay, lastError, lastOutcome, upstreamCalls, sleeps, elapsed>>
callVars == <<entry, toolName, hasArgs, args>>
fileVars == <<files, writes>>

NoResult == [kind |-> "none", isError |-> FALSE, text |-> "", imagePath |-> ""]

\* a tool result, `return { content: [{type: "text", text}], isError }`
ToolResult(text, isError) ==
  [kind |-> "returned", isError |-> isError, text |-> text, imagePath |-> ""]

\* an exception that leaves the handler
Thrown(text) == [kind |-> "thrown", isError |-> FALSE, text |-> text, imagePath |-> ""]

\* generate() rejects with Error(message): the catch of the tool handler turns
\* it into an error result, a direct caller sees the rejection
Rejected(e, message) ==
  IF e = "tool"
  THEN ToolResult("Error: " \o message, TRUE)
  ELSE [kind |-> "rejected", isError |-> TRUE, text |-> message, imagePath |-> ""]

\* generate() resolves with { imagePath: outputPath, model, usage }
Resolved(e, outputPath) ==
  IF e = "tool"
  THEN [kind |-> "returned", isError |-> FALSE,
        text |-> "Image saved to: " \o outputPath, imagePath |-> outputPath]
  ELSE [kind |-> "resolved", isError |-> FALSE, text |-> "", imagePath |-> outputPath]

\* the local state of a call that has not started
IdleCall ==
  [pc |-> "idle", outputPath |-> "", attempt |-> 0, imageUrl |-> "", buffer |-> "",
   result |-> NoResult]

\* no call has been made
NoCall ==
  /\ entry = "none"
  /\ toolName = ""
  /\ hasArgs = FALSE
  /\ args = NoArgs
  /\ opts = NoOptions
  /\ modelId = ""
  /\ processedUrls = <<>>
  /\ uploads = <<>>
  /\ input = NoInput
  /\ attempt = 0
  /\ delay = 0
  /\ lastError = ""
  /\ lastOutcome = "none"
  /\ upstreamCalls = 0
  /\ sleeps = <<>>
  /\ elapsed = 0
  /\ response = NoResponse
  /\ nextImage = 0
  /\ files = {}
  /\ writes = <<>>
  /\ usage = 0
  /\ result = NoResult

\* `process.env.FAL_KEY || process.env.FAL_API_KEY`: FAL_API_KEY replaced by
\* FAL_KEY, so that the second name is never read
ResolveKey_OnlyFalKey(e) ==
  IF Truthy(e.FAL_KEY) THEN e.FAL_KEY ELSE e.FAL_KEY

\* `process.env.FAL_KEY || process.env.FAL_API_KEY`
ResolveKey(e) ==
  IF Truthy(e.FAL_KEY) THEN e.FAL_KEY ELSE e.FAL_API_KEY

\* no classifier has run
NoClassification ==
  /\ failure = NoFailure
  /\ classifier = ""
  /\ category = ""

\* getImageInputType was not called on its own
NoInputType ==
  /\ imageInput = ""
  /\ imageInputType = ""

\* no overlapping calls are under way
NoOverlap ==
  /\ calls = [c \in CallIds |-> IdleCall]
  /\ disk = {}

\* the server is up: the module body of index.ts has run with a key
Init ==
  /\ env = RunningEnv
  /\ credential = ResolveKey(env).s
  /\ pc = "idle"
  /\ NoCall
  /\ NoClassification
  /\ NoInputType
  /\ NoOverlap

\* the process has been started and the module body of index.ts has not run
InitStartup ==
  /\ env \in Envs
  /\ credential = ""
  /\ pc = "start"
  /\ NoCall
  /\ NoClassification
  /\ NoInputType
  /\ NoOverlap

\* the module body of index.ts: read the key, exit(1) without one, else
\* construct the provider with it and serve
Startup ==
  /\ pc = "start"
  /\ LET FAL_KEY == ResolveKey(env)
     IN IF ~Truthy(FAL_KEY)
        THEN /\ pc' = "exited"
             /\ UNCHANGED credential
        ELSE /\ pc' = "idle"
             /\ credential' = FAL_KEY.s
  /\ UNCHANGED <<env, classifyVars, inputTypeVars, overlapVars, callVars, opts,
                 modelId, processedUrls, uploads, input, retryVars, response,
                 nextImage, files, writes, usage, result>>

(***************************************************************************)
(* generate(): from the call to its first suspension                       *)
(***************************************************************************)
\* the validation inside the try block: its error goes through the catch block
StartGenerate_ValidateInTry(e, options) ==
  LET o == GenerateDefaults(options)
      verr == ValidationError(o)
      hasReferenceImages == Len(o.referenceImages) > 0
  IN /\ opts' = o
     /\ IF verr # ""
        THEN /\ pc' = "done"
             /\ usage' = usage + 1
             /\ result' = Rejected(e, CategorizedError(verr))
             /\ UNCHANGED <<modelId, input, attempt, delay>>
        ELSE /\ modelId' = getModelId(o.model, hasReferenceImages)
             /\ result' = NoResult
             /\ UNCHANGED usage
             /\ IF hasReferenceImages
                THEN /\ pc' = "refs"
                     /\ UNCHANGED <<input, attempt, delay>>
                ELSE /\ pc' = "invoke"
                     /\ input' = BuildInput(o, <<>>)
                     /\ attempt' = 0
                     /\ delay' = RetryOpts.initialDelayMs
     /\ UNCHANGED <<processedUrls, uploads, lastError, lastOutcome, upstreamCalls, sleeps,
                    elapsed, response, nextImage, files, writes>>

\* generate() up to the await of processReferenceImages or of withRetry; a
\* validation error is thrown before the try block, past its catch
StartGenerate(e, options) ==
  LET o == GenerateDefaults(options)
      verr == ValidationError(o)
      hasReferenceImages == Len(o.referenceImages) > 0
  IN /\ opts' = o
     /\ IF verr # ""
        THEN /\ pc' = "done"
             /\ result' = Rejected(e, verr)
             /\ UNCHANGED <<modelId, input, attempt, delay>>
        ELSE /\ modelId' = getModelId(o.model, hasReferenceImages)
             /\ result' = NoResult
             /\ IF hasReferenceImages
                THEN /\ pc' = "refs"
                     /\ UNCHANGED <<input, attempt, delay>>
                ELSE /\ pc' = "invoke"
                     /\ input' = BuildInput(o, <<>>)
                     /\ attempt' = 0
                     /\ delay' = RetryOpts.initialDelayMs
     /\ UNCHANGED <<processedUrls, uploads, lastError, lastOutcome, upstreamCalls, sleeps,
                    elapsed, response, nextImage, files, writes, usage>>

\* the catch block of generate(): categorise, log the usage, rethrow
GenerateCatch(errorMessage) ==
  /\ pc' = "done"
  /\ usage' = usage + 1
  /\ result' = Rejected(entry, CategorizedError(errorMessage))

\* FalImageProvider.generate called directly
Generate(options) ==
  /\ pc = "idle"
  /\ entry' = "provider"
  /\ UNCHANGED <<processVars, classifyVars, inputTypeVars, overlapVars, toolName,
                 hasArgs, args>>
  /\ StartGenerate("provider", options)

\* the handler asking for several images
ToolOptions_SeveralImages(a) ==
  [ prompt |-> a.prompt.s,
    outputPath |-> a.output_path.s,
    model |-> a.model,
    referenceImages |-> a.reference_images,
    aspectRatio |-> a.aspect_ratio,
    outputFormat |-> Undefined,
    resolution |-> Undefined,
    numImages |-> [t |-> "number", n |-> MaxImages],
    enableWebSearch |-> UndefinedBool ]

\* the options the tool handler passes to generate()
ToolOptions(a) ==
  [ prompt |-> a.prompt.s,
    outputPath |-> a.output_path.s,
    model |-> a.model,
    referenceImages |-> a.reference_images,
    aspectRatio |-> a.aspect_ratio,
    outputFormat |-> Undefined,
    resolution |-> Undefined,
    numImages |-> UndefinedNum,
    enableWebSearch |-> UndefinedBool ]

\* what the handler does before it calls generate(): "" to go on, else the
\* text of the error result; "throw" marks a TypeError that leaves the handler
BoundaryError(name, present, a) ==
  IF ~present THEN "throw"
  ELSE IF ~Truthy(a.prompt) THEN "Error: Prompt cannot be empty"
  ELSE IF a.prompt.t # "string" THEN "throw"
  ELSE IF Len(Trim(a.prompt.s)) = 0 THEN "Error: Prompt cannot be empty"
  ELSE IF ~Truthy(a.output_path) THEN "Error: output_path is required"
  ELSE IF a.output_path.t # "string" THEN "throw"
  ELSE IF Len(Trim(a.output_path.s)) = 0 THEN "Error: output_path is required"
  ELSE IF Truthy(a.model) /\ ~isSupportedImageModel(a.model.s)
    THEN "Error: Unknown image model \"" \o a.model.s \o "\". Supported models: "
           \o Join(SUPPORTED_IMAGE_MODELS, ", ")
  ELSE ""

Finished(r) ==
  /\ pc' = "done"
  /\ result' = r
  /\ UNCHANGED <<opts, modelId, processedUrls, uploads, input, retryVars, response,
                 nextImage, files, writes, usage>>

\* the CallToolRequestSchema handler, up to its first suspension
CallTool(name, present, a) ==
  /\ pc = "idle"
  /\ toolName' = name
  /\ hasArgs' = present
  /\ args' = a
  /\ UNCHANGED <<processVars, classifyVars, inputTypeVars, overlapVars>>
  /\ IF name = "list_models"
     THEN /\ entry' = "none"
          /\ Finished(ToolResult("{ models }", FALSE))
     ELSE IF name = "generate_image"
     THEN LET b == BoundaryError(name, present, a)
          IN IF b = "throw"
             THEN /\ entry' = "none"
                  /\ Finished(Thrown("TypeError"))
             ELSE IF b # ""
             THEN /\ entry' = "none"
                  /\ Finished(ToolResult(b, TRUE))
             ELSE /\ entry' = "tool"
                  /\ StartGenerate("tool", ToolOptions(a))
     ELSE /\ entry' = "none"
          /\ Finished(ToolResult("Error: Unknown tool \"" \o name \o "\"", TRUE))

(***************************************************************************)
(* processReferenceImages: one iteration of its loop                       *)
(***************************************************************************)
\* the 0-based loop index in the message
ReferenceImageError_ZeroBased(i, errorMessage) ==
  "Failed to process reference image " \o NumToString(i - 1) \o ": " \o errorMessage

\* the error the loop's catch throws for the i-th input (1-based)
ReferenceImageError(i, errorMessage) ==
  "Failed to process reference image " \o NumToString(i) \o ": " \o errorMessage

\* `processedUrls.unshift(url)` in place of `processedUrls.push(url)`
RefDone_Unshift(url) ==
  LET processed == <<url>> \o processedUrls
  IN /\ processedUrls' = processed
     /\ IF Len(processed) = Len(opts.referenceImages)
        THEN /\ pc' = "invoke"
             /\ input' = BuildInput(opts, processed)
             /\ attempt' = 0
             /\ delay' = RetryOpts.initialDelayMs
        ELSE /\ pc' = "refs"
             /\ UNCHANGED <<input, attempt, delay>>
     /\ UNCHANGED <<usage, result>>

\* the iteration pushed a URL; after the last one generate() builds the payload
\* and enters withRetry
RefDone(url) ==
  LET processed == Append(processedUrls, url)
  IN /\ processedUrls' = processed
     /\ IF Len(processed) = Len(opts.referenceImages)
        THEN /\ pc' = "invoke"
             /\ input' = BuildInput(opts, processed)
             /\ attempt' = 0
             /\ delay' = RetryOpts.initialDelayMs
        ELSE /\ pc' = "refs"
             /\ UNCHANGED <<input, attempt, delay>>
     /\ UNCHANGED <<usage, result>>

\* the iteration threw: the loop stops and the catch of generate() runs
RefFailed(i, errorMessage) ==
  /\ GenerateCatch(ReferenceImageError(i, errorMessage))
  /\ UNCHANGED <<processedUrls, input, attempt, delay>>

\* withTimeout(() => fal.storage.upload(blob), UPLOAD_TIMEOUT_MS) for input i
Upload(i) ==
  /\ uploads' = Append(uploads, i)
  /\ \/ RefDone(UploadedUrl(i))
     \/ \E m \in UploadErrors : RefFailed(i, m)
     \/ RefFailed(i, TimeoutError(UPLOAD_TIMEOUT_MS))

ProcessReferenceImage ==
  /\ pc = "refs"
  /\ LET i == Len(processedUrls) + 1
         image == opts.referenceImages[i]
         inputType == getImageInputType(image)
     IN IF inputType = "url"
        THEN /\ RefDone(image)
             /\ UNCHANGED uploads
        ELSE IF imageInputType = "data_url"
        THEN IF DataUrlMatches(image)
             THEN Upload(i)
             ELSE /\ RefFailed(i, "Invalid data URL format. Expected: data:<mime>;base64,<data>")
                  /\ UNCHANGED uploads
        ELSE \/ /\ RefFailed(i, "Reference image file not found: " \o image)
                /\ UNCHANGED uploads
             \/ Upload(i)
  /\ UNCHANGED <<processVars, classifyVars, inputTypeVars, overlapVars, callVars, opts,
                 modelId, lastError, lastOutcome, upstreamCalls, sleeps, elapsed,
                 response, nextImage, files, writes>>

(***************************************************************************)
(* withRetry(() => withTimeout(fal.subscribe, DEFAULT_TIMEOUT_MS))         *)
(***************************************************************************)
\* `throw lastError` with lastError assigned after the throw: the failure of
\* the attempt before is thrown
AttemptFailed_ThrowsEarlier(message, d) ==
  /\ lastError' = message
  /\ elapsed' = elapsed + d
  /\ IF attempt = RetryOpts.maxRetries \/ ~isRetryable(message, RetryOpts.retryableErrors)
     THEN GenerateCatch(IF lastError # "" THEN lastError ELSE message)
     ELSE /\ pc' = "sleep"
          /\ UNCHANGED <<usage, result>>
  /\ UNCHANGED <<response, nextImage>>

\* the attempt failed with the message, d ms after it started
AttemptFailed(message, d) ==
  /\ lastError' = message
  /\ elapsed' = elapsed + d
  /\ IF attempt = RetryOpts.maxRetries \/ ~isRetryable(message, RetryOpts.retryableErrors)
     THEN GenerateCatch(message)
     ELSE /\ pc' = "sleep"
          /\ UNCHANGED <<usage, result>>
  /\ UNCHANGED <<response, nextImage>>

\* the attempt returned the response, d ms after it started; generate() then
\* checks that the response has an image
AttemptSucceeded(r, d) ==
  /\ elapsed' = elapsed + d
  /\ response' = r
  /\ UNCHANGED lastError
  /\ IF ResponseHasNoImage(r)
     THEN /\ GenerateCatch("No image data found in response")
          /\ UNCHANGED nextImage
     ELSE /\ pc' = "download"
          /\ nextImage' = 0
          /\ UNCHANGED <<usage, result>>

Attempt ==
  /\ pc = "invoke"
  /\ upstreamCalls' = upstreamCalls + 1
  /\ \/ /\ lastOutcome' = "response"
        /\ \E r \in Responses, d \in AttemptDurations : AttemptSucceeded(r, d)
     \/ /\ lastOutcome' = "error"
        /\ \E m \in UpstreamErrors, d \in AttemptDurations : AttemptFailed(m, d)
     \/ /\ lastOutcome' = "timeout"
        /\ AttemptFailed(TimeoutError(DEFAULT_TIMEOUT_MS), DEFAULT_TIMEOUT_MS)
  /\ UNCHANGED <<processVars, classifyVars, inputTypeVars, overlapVars, callVars, opts,
                 modelId, processedUrls, uploads, input, attempt, delay, sleeps, files,
                 writes>>

\* the delay multiplied before the sleep, not after it
Sleep_MultipliedFirst ==
  /\ pc = "sleep"
  /\ delay' = Min(delay * RetryOpts.backoffMultiplier, RetryOpts.maxDelayMs)
  /\ sleeps' = Append(sleeps, delay')
  /\ elapsed' = elapsed + delay'
  /\ attempt' = attempt + 1
  /\ pc' = "invoke"
  /\ UNCHANGED <<processVars, classifyVars, inputTypeVars, overlapVars, callVars, opts,
                 modelId, processedUrls, uploads, input, lastError, lastOutcome,
                 upstreamCalls, response, nextImage, files, writes, usage, result>>

\* await sleep(delay); delay = Math.min(delay * backoffMultiplier, maxDelayMs)
Sleep ==
  /\ pc = "sleep"
  /\ sleeps' = Append(sleeps, delay)
  /\ elapsed' = elapsed + delay
  /\ delay' = Min(delay * RetryOpts.backoffMultiplier, RetryOpts.maxDelayMs)
  /\ attempt' = attempt + 1
  /\ pc' = "invoke"
  /\ UNCHANGED <<processVars, classifyVars, inputTypeVars, overlapVars, callVars, opts,
                 modelId, processedUrls, uploads, input, lastError, lastOutcome,
                 upstreamCalls, response, nextImage, files, writes, usage, result>>

(***************************************************************************)
(* downloadAndSave, and the loop over the additional images                *)
(***************************************************************************)
\* the path image i (0-based) is saved to
SavePath(i) == IF i = 0 THEN opts.outputPath ELSE NumberedPath(opts.outputPath, i)

\* image i was written; generate() goes on to the next image or returns
Saved(i) ==
  LET path == SavePath(i)
      bytes == BytesOf(response.images[i + 1])
      more == opts.numImages > 1 /\ Len(response.images) > 1 /\ i + 1 < Len(response.images)
  IN /\ files' = {f \in files : f.path # path} \cup {[path |-> path, bytes |-> bytes]}
     /\ writes' = Append(writes, [path |-> path, bytes |-> bytes])
     /\ IF more
        THEN /\ nextImage' = i + 1
             /\ pc' = "download"
             /\ UNCHANGED <<usage, result>>
        ELSE /\ UNCHANGED nextImage
             /\ pc' = "done"
             /\ usage' = usage + 1
             /\ result' = Resolved(entry, opts.outputPath)

\* downloadAndSave threw before it wrote
DownloadFailed(errorMessage) ==
  /\ GenerateCatch(errorMessage)
  /\ UNCHANGED <<nextImage, files, writes>>

Download ==
  /\ pc = "download"
  /\ \/ Saved(nextImage)
     \/ DownloadFailed("fetch failed")
     \/ DownloadFailed("Failed to download image: 404 Not Found")
     \/ DownloadFailed("EACCES: permission denied, open '" \o SavePath(nextImage) \o "'")
  /\ UNCHANGED <<processVars, classifyVars, inputTypeVars, overlapVars, callVars, opts,
                 modelId, processedUrls, uploads, input, retryVars, response>>

(***************************************************************************)
(* Specification                                                           *)
(***************************************************************************)
Next ==
  \/ pc = "idle" /\ \E name \in ToolNames, a \in ToolArgs : CallTool(name, TRUE, a)
  \/ pc = "idle" /\ \E name \in ToolNames : CallTool(name, FALSE, NoArgs)
  \/ pc = "idle" /\ \E options \in ProviderOptions : Generate(options)
  \/ ProcessReferenceImage
  \/ Attempt
  \/ Sleep
  \/ Download

Spec == Init /\ [][Next]_vars

\* a server from the start of its process, serving its first tool call
NextStartup ==
  \/ Startup
  \/ pc = "idle" /\ \E name \in ToolNames, a \in StartupArgs : CallTool(name, TRUE, a)
  \/ ProcessReferenceImage
  \/ Attempt
  \/ Sleep
  \/ Download

SpecStartup == InitStartup /\ [][NextStartup]_vars

\* a failure value is about to be classified
InitClassify ==
  /\ env = RunningEnv
  /\ credential = ResolveKey(env).s
  /\ pc = "classify"
  /\ NoCall
  /\ failure \in Failures
  /\ classifier = ""
  /\ category = ""
  /\ NoInputType
  /\ NoOverlap

\* the classification the catch block of generate() makes
ClassifyInCatch ==
  /\ pc \in {"classify", "classified"}
  /\ pc' = "classified"
  /\ classifier' = "catch"
  /\ category' = ErrorType(MessageOf(failure))
  /\ UNCHANGED <<processVars, failure, inputTypeVars, overlapVars, callVars, opts,
                 modelId, processedUrls, uploads, input, retryVars, response,
                 nextImage, files, writes, usage, result>>

\* a call of categorizeError
CategorizeError ==
  /\ pc \in {"classify", "classified"}
  /\ pc' = "classified"
  /\ classifier' = "categorizeError"
  /\ category' = categorizeError(failure)
  /\ UNCHANGED <<processVars, failure, inputTypeVars, overlapVars, callVars, opts,
                 modelId, processedUrls, uploads, input, retryVars, response,
                 nextImage, files, writes, usage, result>>

NextClassify == ClassifyInCatch \/ CategorizeError

\* the single-call pipeline is at rest
singleCallVars ==
  <<callVars, opts, modelId, processedUrls, uploads, input, retryVars, response,
    nextImage, files, writes, usage, result>>

\* a reference image is about to be classified
InitInputType ==
  /\ env = RunningEnv
  /\ credential = ResolveKey(env).s
  /\ pc = "input"
  /\ NoCall
  /\ NoClassification
  /\ imageInput \in ImageInputs
  /\ imageInputType = ""
  /\ NoOverlap

\* a call of getImageInputType
ClassifyInput ==
  /\ pc = "input"
  /\ pc' = "typed"
  /\ imageInputType' = getImageInputType(imageInput)
  /\ UNCHANGED <<processVars, classifyVars, imageInput, overlapVars, singleCallVars>>

SpecInputType == InitInputType /\ [][ClassifyInput]_vars

(***************************************************************************)
(* Overlapping generate_image calls: each call has its own locals, the     *)
(* file system is the one thing they share                                 *)
(***************************************************************************)
\* the server is up and no call has arrived
InitOverlap ==
  /\ env = RunningEnv
  /\ credential = ResolveKey(env).s
  /\ pc = "overlap"
  /\ NoCall
  /\ NoClassification
  /\ NoInputType
  /\ NoOverlap

\* the URL of the image that the upstream call of call c returns
OverlapImageUrl(c) == "https://v3.fal.media/files/call" \o NumToString(c)

\* one output path kept for all calls: the path of the first call
OverlapSavePath_Shared(c) == calls[1].outputPath

\* the outputPath that call c hands to downloadAndSave
OverlapSavePath(c) == calls[c].outputPath

\* call c moves to the local state next; the other calls stay where they are
OverlapStep(c, next) ==
  /\ calls' = [calls EXCEPT ![c] = next]
  /\ UNCHANGED <<pc, processVars, classifyVars, inputTypeVars, singleCallVars>>

\* the handler is entered with valid arguments and generate() reaches
\* withRetry
OverlapBegin(c, path) ==
  /\ calls[c].pc = "idle"
  /\ OverlapStep(c, [calls[c] EXCEPT !.pc = "invoke", !.outputPath = path])
  /\ UNCHANGED disk

\* one attempt of the upstream call: a response, a retryable failure, or a
\* failure that is not retryable
OverlapAttempt(c) ==
  /\ calls[c].pc = "invoke"
  /\ \/ OverlapStep(c, [calls[c] EXCEPT !.pc = "fetch", !.imageUrl = OverlapImageUrl(c)])
     \/ \E message \in UpstreamErrors :
          IF calls[c].attempt = RetryOpts.maxRetries
               \/ ~isRetryable(message, RetryOpts.retryableErrors)
          THEN OverlapStep(c, [calls[c] EXCEPT
                                 !.pc = "done",
                                 !.result = Rejected("tool", CategorizedError(message))])
          ELSE OverlapStep(c, [calls[c] EXCEPT !.pc = "sleep"])
  /\ UNCHANGED disk

\* the backoff sleep of call c
OverlapSleep(c) ==
  /\ calls[c].pc = "sleep"
  /\ OverlapStep(c, [calls[c] EXCEPT !.pc = "invoke", !.attempt = @ + 1])
  /\ UNCHANGED disk

\* downloadAndSave up to its last await: the image is in the buffer, or the
\* fetch failed
OverlapFetch(c) ==
  /\ calls[c].pc = "fetch"
  /\ \/ OverlapStep(c, [calls[c] EXCEPT !.pc = "write", !.buffer = BytesOf(calls[c].imageUrl)])
     \/ OverlapStep(c, [calls[c] EXCEPT
                          !.pc = "done",
                          !.result = Rejected("tool", CategorizedError("fetch failed"))])
  /\ UNCHANGED disk

\* writeFileSync(outputPath, buffer), and the handler returns
OverlapWrite(c) ==
  /\ calls[c].pc = "write"
  /\ LET path == OverlapSavePath(c)
     IN disk' = {f \in disk : f.path # path} \cup {[path |-> path, bytes |-> calls[c].buffer]}
  /\ OverlapStep(c, [calls[c] EXCEPT
                       !.pc = "done", !.result = Resolved("tool", calls[c].outputPath)])

NextOverlap ==
  \E c \in CallIds :
     \/ \E path \in OverlapPaths : OverlapBegin(c, path)
     \/ OverlapAttempt(c)
     \/ OverlapSleep(c)
     \/ OverlapFetch(c)
     \/ OverlapWrite(c)

SpecOverlap == InitOverlap /\ [][NextOverlap]_vars

SpecClassify == InitClassify /\ [][NextClassify]_vars

TypeOK ==
  /\ pc \in {"start", "exited", "idle", "refs", "invoke", "sleep", "download", "done",
             "classify", "classified", "input", "typed", "overlap"}
  /\ lastOutcome \in {"none", "response", "error", "timeout"}
  /\ entry \in {"none", "tool", "provider"}
  /\ result.kind \in {"none", "returned", "thrown", "resolved", "rejected"}

(***************************************************************************)
(* Properties                                                              *)
(***************************************************************************)
\* the call entered generate() and generate() settled
Settled == entry # "none" /\ pc = "done"

\* no upload, no upstream call, no file write was made
NoNetworkActivity == uploads = <<>> /\ upstreamCalls = 0 /\ writes = <<>> /\ files = {}

\* the request failed: an error result of the tool, or a rejection of generate()
Failed == result.isError /\ result.kind \in {"returned", "rejected"}

IsRemoteUrl(x) == StartsWith(x, "http://") \/ StartsWith(x, "https://")

\* C1: every generate_image tool call that has ended has ended in a result
\* returned by the handler (a success result or an error result); no
\* exception has left the handler.
C1_EveryCallReturnsAResult ==
  (toolName = "generate_image" /\ pc = "done") => result.kind = "returned"

Taxonomy ==
  {"AUTH_ERROR", "RATE_LIMIT", "CONTENT_BLOCKED", "SAFETY_BLOCK", "TIMEOUT",
   "VALIDATION_ERROR", "API_ERROR", "GENERATION_ERROR"}

\* C2: the text of every error result of generate_image is prefixed with a
\* category of the closed taxonomy.
C2_ErrorsAreClassified ==
  (toolName = "generate_image" /\ result.kind = "returned" /\ result.isError)
    => \E c \in Taxonomy : StartsWith(result.text, "Error: " \o c \o ": ")

\* C3: a generate request with aspectRatio "auto" and no reference images has
\* failed with the validation error about "auto" as soon as generate() was
\* entered, and no upload, upstream call, download or file write was made.
C3_AutoWithoutReferencesFails ==
  (entry # "none" /\ opts.aspectRatio = "auto" /\ Len(opts.referenceImages) = 0)
    => /\ pc = "done"
       /\ Failed
       /\ Includes(result.text, "Aspect ratio \"auto\" is only valid when using reference_images")
       /\ NoNetworkActivity

C3_Witness ==
  /\ entry = "tool" /\ pc = "done"
  /\ args.aspect_ratio = "auto" /\ args.reference_images.a = <<>>
  /\ Failed

\* the ceiling of the two models, as the documentation states it
Ceiling(model) == IF model = "nano-banana-pro" THEN 14 ELSE 3

OverCeiling ==
  /\ entry # "none"
  /\ opts.model \in {"nano-banana", "nano-banana-pro"}
  /\ Len(opts.referenceImages) > Ceiling(opts.model)

\* C4 as stated: a request with more reference images than the ceiling of its
\* model fails with a message that cites the ceiling.
C4_Original_OverCeilingCitesCeiling ==
  OverCeiling
    => /\ pc = "done"
       /\ Failed
       /\ Includes(result.text, NumToString(Ceiling(opts.model)))

\* C4 amended: a request with more reference images than the ceiling of its
\* model always fails before any upload or upstream call; the message cites
\* the ceiling when the aspect ratio is absent or in the extended set, and is
\* the message of the aspect-ratio check otherwise.
C4_OverCeilingFails ==
  OverCeiling
    => /\ pc = "done"
       /\ Failed
       /\ NoNetworkActivity
       /\ IF opts.aspectRatio = "" \/ ArrayIncludes(ASPECT_RATIOS_WITH_AUTO, opts.aspectRatio)
          THEN Includes(result.text,
                        "Maximum " \o NumToString(Ceiling(opts.model))
                          \o " reference images allowed for " \o opts.model)
          ELSE Includes(result.text, "Invalid aspect ratio")

C4_Witness ==
  /\ entry = "tool" /\ pc = "done"
  /\ args.model.t = "undefined"
  /\ Len(args.reference_images.a) = 4
  /\ args.aspect_ratio = "16:9"
  /\ Includes(result.text, "Maximum 3 reference images")

\* C5: a generate request with a resolution other than 1K and a model other
\* than nano-banana-pro has failed validation as soon as generate() was
\* entered, without any upload or upstream call; so no upstream call is made
\* for a model other than nano-banana-pro with a resolution other than 1K.
C5_ResolutionNeedsPro ==
  /\ (entry # "none" /\ opts.resolution # "1K" /\ opts.model # "nano-banana-pro")
       => /\ pc = "done"
          /\ Failed
          /\ NoNetworkActivity
          /\ \/ Includes(result.text, "Only nano-banana-pro supports 2K and 4K resolution")
             \/ Includes(result.text, "Aspect ratio")
             \/ Includes(result.text, "Invalid aspect ratio")
             \/ Includes(result.text, "reference images allowed")
  /\ (upstreamCalls > 0 /\ opts.model # "nano-banana-pro")
       => opts.resolution = "1K" /\ "resolution" \notin input.keys

C5_Witness ==
  /\ entry = "provider" /\ pc = "done"
  /\ opts.resolution = "4K" /\ opts.model = "nano-banana"
  /\ Failed
  /\ Includes(result.text, "Only nano-banana-pro supports 2K and 4K resolution")

\* C6: the endpoint of every upstream call is the one the table gives for
\* (model, has reference images); a tool call without a model is routed as
\* nano-banana, and without reference images never to an edit endpoint.
C6_EndpointTable ==
  upstreamCalls > 0
    => /\ modelId =
            (IF opts.model = "nano-banana-pro"
             THEN IF Len(opts.referenceImages) > 0
                  THEN "fal-ai/nano-banana-pro/edit" ELSE "fal-ai/nano-banana-pro"
             ELSE IF Len(opts.referenceImages) > 0
                  THEN "fal-ai/nano-banana/edit" ELSE "fal-ai/nano-banana")
       /\ (entry = "tool" /\ args.model.t = "undefined")
            => modelId =
                 (IF Len(args.reference_images.a) > 0
                  THEN "fal-ai/nano-banana/edit" ELSE "fal-ai/nano-banana")

C6_Witness ==
  /\ entry = "tool" /\ upstreamCalls > 0
  /\ args.model.t = "undefined" /\ args.reference_images.t = "undefined"
  /\ modelId = "fal-ai/nano-banana"

\* C7: a reference image that is a remote URL is in the processed list, and
\* in the payload, unchanged at its own position and no upload was made for
\* it; every upload was made for an input that is not a remote URL.
C7_RemoteUrlsAreForwarded ==
  /\ \A i \in 1..Len(processedUrls) :
        IsRemoteUrl(opts.referenceImages[i])
          => /\ processedUrls[i] = opts.referenceImages[i]
             /\ \A k \in 1..Len(uploads) : uploads[k] # i
  /\ \A k \in 1..Len(uploads) : ~IsRemoteUrl(opts.referenceImages[uploads[k]])
  /\ upstreamCalls > 0
       => \A i \in 1..Len(opts.referenceImages) :
             IsRemoteUrl(opts.referenceImages[i])
               => /\ "image_urls" \in input.keys
                  /\ input.image_urls[i] = opts.referenceImages[i]

C7_Witness ==
  /\ upstreamCalls > 0
  /\ Len(opts.referenceImages) = 2
  /\ IsRemoteUrl(opts.referenceImages[2])
  /\ uploads = <<1>>
  /\ input.image_urls[2] = opts.referenceImages[2]

HasRetrySignal(message) ==
  \E sig \in {"rate_limit", "429", "503", "502", "econnreset", "etimedout"} :
     Includes(ToLowerCase(message), sig)

C10_SharedDeadline == elapsed <= 180000

\* the message of the error the caller got, without the "Error: " that the
\* tool handler puts before it
ReportedMessage ==
  IF result.kind = "returned" /\ StartsWith(result.text, "Error: ")
  THEN SubSeq(result.text, 8, Len(result.text))
  ELSE result.text

\* C11: when the timer of withTimeout has cut off an upstream attempt, the
\* request has failed with an error of category TIMEOUT and neither a backoff
\* sleep nor another attempt follows, whatever the number of attempts made so
\* far.
C11_TimeoutIsFinal ==
  lastOutcome = "timeout"
    => /\ pc = "done"
       /\ Failed
       /\ StartsWith(ReportedMessage, "TIMEOUT: ")
       /\ upstreamCalls = Len(sleeps) + 1

\* the second attempt timed out with one retry left
C11_Witness ==
  /\ lastOutcome = "timeout"
  /\ pc = "done"
  /\ upstreamCalls = 2
  /\ attempt < 2

\* C12: when the upstream call has returned a response whose images list is
\* absent or empty, the request has failed with the error "No image data
\* found in response", no download was started and no file was written.
C12_NoImagesNoFile ==
  (lastOutcome = "response" /\ (~response.hasImages \/ response.images = <<>>))
    => /\ pc = "done"
       /\ Failed
       /\ Includes(ReportedMessage, "No image data found in response")
       /\ writes = <<>>
       /\ files = {}

\* the response had an images list, and the list was empty
C12_Witness ==
  /\ lastOutcome = "response"
  /\ response.hasImages /\ response.images = <<>>
  /\ pc = "done"
  /\ Failed

\* the file that the j-th write (1-based) of a request for several images
\* with the output path /tmp/x.png has to make
ExpectedWrite(j) ==
  [ path |-> IF j = 1 THEN "/tmp/x.png" ELSE "/tmp/x_" \o NumToString(j) \o ".png",
    bytes |-> "bytes of " \o response.images[j] ]

\* C13: in a request for several images (numImages > 1) with an output path
\* that has an extension, here /tmp/x.png, whose response has k >= 2 images,
\* the j-th file written is the one of the j-th image of the response: the
\* first at the output path, the j-th at /tmp/x_<j>.png, each with the bytes
\* of its own URL; the images are written one by one in response order, and
\* a request that has succeeded has written all k.
C13_NumberedSiblings ==
  (entry # "none" /\ opts.numImages > 1 /\ opts.outputPath = "/tmp/x.png"
     /\ Len(response.images) >= 2)
    => /\ Len(writes) <= Len(response.images)
       /\ \A j \in 1..Len(writes) : writes[j] = ExpectedWrite(j)
       /\ files = {writes[j] : j \in 1..Len(writes)}
       /\ pc = "download" => nextImage = Len(writes)
       /\ (pc = "done" /\ ~result.isError) => Len(writes) = Len(response.images)

\* three images were asked for and returned, and the three files are there
C13_Witness ==
  /\ pc = "done" /\ ~result.isError
  /\ opts.numImages = 3 /\ Len(response.images) = 3
  /\ files = { [path |-> "/tmp/x.png", bytes |-> "bytes of https://v3.fal.media/files/out1"],
               [path |-> "/tmp/x_2.png", bytes |-> "bytes of https://v3.fal.media/files/out2"],
               [path |-> "/tmp/x_3.png", bytes |-> "bytes of https://v3.fal.media/files/out3"] }

\* C14: a generate_image request that has ended, in success or in a failure
\* of any kind, has triggered the write of its usage record exactly once;
\* and no request triggers it twice.
C14_UsageLoggedOnce ==
  /\ usage <= 1
  /\ (toolName = "generate_image" /\ pc = "done") => usage = 1

\* C15: every classification of a failure value gives one category of the
\* taxonomy; "Invalid API key" gives AUTH_ERROR, "Rate limit exceeded (429)"
\* gives RATE_LIMIT, "blocked by safety filter" gives CONTENT_BLOCKED or
\* SAFETY_BLOCK, and a text that matches no rule gives API_ERROR.
C15_ClassificationExamples ==
  pc = "classified"
    => /\ category \in Taxonomy
       /\ MessageOf(failure) = "Invalid API key" => category = "AUTH_ERROR"
       /\ MessageOf(failure) = "Rate limit exceeded (429)" => category = "RATE_LIMIT"
       /\ MessageOf(failure) = "blocked by safety filter"
            => category \in {"CONTENT_BLOCKED", "SAFETY_BLOCK"}
       /\ (MessageOf(failure) = "Internal Server Error" /\ failure.status = 0)
            => category = "API_ERROR"

IsBlank(v) == v.t = "string" /\ v.s \in {"", " ", "  "}

\* a model argument that names no supported model
IsUnknownModel(v) == v.t = "string" /\ v.s \notin {"nano-banana", "nano-banana-pro"}

\* C17: a generate_image call with a blank prompt, a blank output_path or a
\* model name outside {nano-banana, nano-banana-pro}, and a call of a tool
\* other than generate_image and list_models, has returned an error result
\* with isError set, and the provider was not invoked: no upload, upstream
\* call, download or file write was made.
C17_BoundaryRejections ==
  (hasArgs
     /\ \/ /\ toolName = "generate_image"
           /\ IsBlank(args.prompt) \/ IsBlank(args.output_path) \/ IsUnknownModel(args.model)
        \/ toolName \notin {"", "generate_image", "list_models"})
    => /\ pc = "done"
       /\ result.kind = "returned" /\ result.isError
       /\ entry = "none"
       /\ NoNetworkActivity

\* an environment variable that is set to a non-empty value
IsSet(v) == v.t = "string" /\ v.s # ""

\* C18: once the module body has run, the credential is the value of FAL_KEY
\* when FAL_KEY is set to a non-empty value, else the value of FAL_API_KEY
\* when that is set to a non-empty value, else the process has exited; a
\* process that has exited handles no tool call, and every tool call and
\* every upstream call is made with a non-empty credential.
C18_CredentialAtStartup ==
  /\ pc # "start"
       => IF IsSet(env.FAL_KEY)
            THEN pc # "exited" /\ credential = env.FAL_KEY.s
          ELSE IF IsSet(env.FAL_API_KEY)
            THEN pc # "exited" /\ credential = env.FAL_API_KEY.s
          ELSE pc = "exited"
  /\ pc = "exited" => toolName = "" /\ upstreamCalls = 0 /\ credential = ""
  /\ (toolName # "" \/ upstreamCalls > 0) => credential # ""

\* FAL_KEY is empty, FAL_API_KEY holds the key, and an upstream call was made
C18_Witness ==
  /\ env.FAL_KEY = Str("") /\ env.FAL_API_KEY = Str("key-b")
  /\ upstreamCalls > 0
  /\ credential = "key-b"

\* an argument that is missing, or an empty or whitespace-only string
IsEmptyArg(v) == v.t = "undefined" \/ IsBlank(v)

\* the rules of the validation in the order the specification gives them,
\* each with a text that its error carries; the first rule that the arguments
\* of the tool call violate, "" when they violate none
FirstViolatedRule ==
  LET refs == Len(args.reference_images.a)
      max == IF args.model = Str("nano-banana-pro") THEN 14 ELSE 3
  IN IF IsEmptyArg(args.prompt) THEN "Prompt cannot be empty"
     ELSE IF IsEmptyArg(args.output_path) THEN "output_path is required"
     ELSE IF args.aspect_ratio = "auto" /\ refs = 0
       THEN "is only valid when using reference_images"
     ELSE IF args.aspect_ratio \notin
               {"", "auto", "21:9", "16:9", "3:2", "4:3", "5:4", "1:1", "4:5", "3:4",
                "2:3", "9:16"}
       THEN "Invalid aspect ratio"
     ELSE IF refs > max THEN "reference images allowed"
     ELSE ""

\* C19: a generate_image call that violates one or more of the validation
\* rules has failed with the error of the first rule it violates, in the
\* order prompt, output path, aspect ratio "auto" without reference images,
\* aspect ratio membership, reference-image count; and no upload and no
\* upstream call was made.
C19_FirstViolationReported ==
  (toolName = "generate_image" /\ hasArgs /\ FirstViolatedRule # "")
    => /\ pc = "done"
       /\ Failed
       /\ Includes(result.text, FirstViolatedRule)
       /\ NoNetworkActivity

\* the options of the request violate a rule of the validation of generate()
ViolatesValidation ==
  /\ entry # "none"
  /\ \/ opts.aspectRatio = "auto" /\ opts.referenceImages = <<>>
     \/ opts.aspectRatio \notin
          {"", "auto", "21:9", "16:9", "3:2", "4:3", "5:4", "1:1", "4:5", "3:4", "2:3",
           "9:16"}
     \/ OverCeiling
     \/ opts.resolution # "1K" /\ opts.model # "nano-banana-pro"

\* the category names that the classifiers of the program give
CategoryNames == Taxonomy \cup {"INVALID_REQUEST"}

\* C20: a generate request whose aspect ratio, number of reference images or
\* resolution violates the validation has failed at once: no upload and no
\* upstream call was made, the retry loop was not entered (no attempt, no
\* backoff sleep), and the error reached the caller as it was raised, without
\* a category before its message.
C20_ValidationBypassesRetryAndClassifier ==
  ViolatesValidation
    => /\ pc = "done"
       /\ Failed
       /\ NoNetworkActivity
       /\ attempt = 0 /\ sleeps = <<>> /\ lastOutcome = "none" /\ lastError = ""
       /\ \A c \in CategoryNames : ~StartsWith(ReportedMessage, c \o ": ")
       /\ \/ StartsWith(ReportedMessage, "Aspect ratio \"auto\" is only valid")
          \/ StartsWith(ReportedMessage, "Invalid aspect ratio")
          \/ StartsWith(ReportedMessage, "Maximum ")
          \/ StartsWith(ReportedMessage, "Only nano-banana-pro supports")

\* a direct call with resolution 2K for the fast model was rejected
C20_Witness ==
  /\ entry = "provider" /\ pc = "done"
  /\ opts.resolution = "2K" /\ opts.model = "nano-banana" /\ opts.aspectRatio = "16:9"
  /\ result.kind = "rejected"
  /\ result.text = "Only nano-banana-pro supports 2K and 4K resolution"

\* the URL that the reference image at position i (1-based) has to become
ExpectedReferenceUrl(i) ==
  IF IsRemoteUrl(opts.referenceImages[i])
  THEN opts.referenceImages[i]
  ELSE "https://v3.fal.media/files/ref" \o NumToString(i)

\* C21: at every step the URLs produced so far are those of a prefix of the
\* reference images, position by position (the input itself for a remote
\* URL, the result of its upload otherwise), and the uploads were made in
\* input order; the list sent upstream has the length of the input list.
C21_ReferenceOrderKept ==
  /\ Len(processedUrls) <= Len(opts.referenceImages)
  /\ \A i \in 1..Len(processedUrls) : processedUrls[i] = ExpectedReferenceUrl(i)
  /\ \A k \in 1..Len(uploads) : \A l \in 1..Len(uploads) : k < l => uploads[k] < uploads[l]
  /\ pc = "refs" => Len(processedUrls) < Len(opts.referenceImages)
  /\ (upstreamCalls > 0 /\ opts.referenceImages # <<>>)
       => /\ Len(input.image_urls) = Len(opts.referenceImages)
          /\ \A i \in 1..Len(input.image_urls) : input.image_urls[i] = ExpectedReferenceUrl(i)

\* an upload result followed by a remote URL went upstream in that order
C21_Witness ==
  /\ upstreamCalls > 0
  /\ opts.referenceImages = <<"/home/user/image.jpg", "https://x/y.jpg">>
  /\ input.image_urls = <<"https://v3.fal.media/files/ref1", "https://x/y.jpg">>

\* C22: getImageInputType gives every input one type, by its prefix alone:
\* data_url when the input begins with "data:", whatever follows; url when it
\* begins with "http://" or "https://"; local_file in every other case.
C22_InputTypeByPrefix ==
  pc = "typed"
    => /\ imageInputType \in {"data_url", "url", "local_file"}
       /\ imageInputType = "data_url"
            <=> (Len(imageInput) >= 5 /\ SubSeq(imageInput, 1, 5) = "data:")
       /\ imageInputType = "url"
            <=> \/ Len(imageInput) >= 7 /\ SubSeq(imageInput, 1, 7) = "http://"
                \/ Len(imageInput) >= 8 /\ SubSeq(imageInput, 1, 8) = "https://"

\* an embedded-data input that carries a URL after its prefix
C22_Witness ==
  /\ pc = "typed"
  /\ imageInput = "data:http://x/y.jpg"
  /\ imageInputType = "data_url"

\* whether the message carries one of the retryable signals that the
\* specification lists
HasListedRetrySignal(message) ==
  \E sig \in {"rate_limit", "rate limit", "429", "502", "503", "econnreset", "etimedout",
               "enotfound", "temporarily unavailable", "too many requests"} :
     Includes(ToLowerCase(message), sig)

\* C23: an upstream failure on an attempt that is not the last allowed one is
\* followed by a backoff sleep and another attempt exactly when its message
\* carries, in any case, one of the listed retryable signals, ENOTFOUND,
\* "temporarily unavailable" and "too many requests" among them.
C23_RetriedExactlyOnListedSignals ==
  (lastOutcome = "error" /\ pc \in {"sleep", "done"} /\ attempt < 2)
    => (pc = "sleep" <=> HasListedRetrySignal(lastError))

\* C24: when an upstream attempt has failed with a message that carries none
\* of the retryable signals, the request has failed on that attempt, with
\* this failure and without a further sleep or attempt; on the first attempt
\* this means one upstream call and no backoff sleep.
C24_NoSignalNoRetry ==
  (lastOutcome = "error" /\ ~HasListedRetrySignal(lastError))
    => /\ pc = "done"
       /\ Failed
       /\ Includes(ReportedMessage, lastError)
       /\ upstreamCalls = Len(sleeps) + 1
       /\ attempt = 0 => (upstreamCalls = 1 /\ sleeps = <<>> /\ elapsed \in AttemptDurations)

\* the first attempt failed with a message without a signal
C24_Witness ==
  /\ lastOutcome = "error"
  /\ lastError = "Internal Server Error"
  /\ pc = "done" /\ upstreamCalls = 1 /\ sleeps = <<>>

\* the length of the backoff sleep before retry number n, in ms
BackoffMs(n) == IF 1000 * 2 ^ (n - 1) < 30000 THEN 1000 * 2 ^ (n - 1) ELSE 30000

\* C25: there is one backoff sleep between each failed attempt and the next
\* attempt and no other: none before the first attempt, none after the last;
\* a sleep is pending only after a failed attempt; the n-th sleep lasts
\* min(1000 * 2^(n-1), 30000) ms, so a call that succeeded on its third
\* attempt slept 1000 ms and then 2000 ms.
C25_BackoffBetweenAttempts ==
  /\ \A n \in 1..Len(sleeps) : sleeps[n] = BackoffMs(n)
  /\ upstreamCalls = 0 => sleeps = <<>>
  /\ pc = "sleep" => (lastOutcome = "error" /\ Len(sleeps) = upstreamCalls - 1)
  /\ (pc = "invoke" /\ upstreamCalls > 0) => Len(sleeps) = upstreamCalls
  /\ (pc \in {"download", "done"} /\ upstreamCalls > 0) => Len(sleeps) = upstreamCalls - 1
  /\ (lastOutcome = "response" /\ upstreamCalls = 3) => sleeps = <<1000, 2000>>

\* two failures with 429, then a response that was saved
C25_Witness ==
  /\ lastOutcome = "response" /\ upstreamCalls = 3
  /\ Includes(lastError, "429")
  /\ sleeps = <<1000, 2000>>
  /\ pc = "done" /\ ~result.isError /\ writes # <<>>

\* C26: when the third attempt has failed with a retryable failure, as the
\* two before it, the request has failed and the failure that left the retry
\* loop is the one of the third attempt: the caller gets exactly its message
\* behind the category; no response was taken and nothing was written.
C26_LastFailurePropagates ==
  (upstreamCalls = 3 /\ lastOutcome = "error" /\ HasListedRetrySignal(lastError))
    => /\ pc = "done"
       /\ Failed
       /\ \E c \in CategoryNames : ReportedMessage = c \o ": " \o lastError
       /\ response = NoResponse
       /\ writes = <<>>

\* three retryable failures, the last of them a 503
C26_Witness ==
  /\ upstreamCalls = 3 /\ lastOutcome = "error"
  /\ lastError = "503 Service Unavailable"
  /\ sleeps = <<1000, 2000>>
  /\ pc = "done"
  /\ ReportedMessage = "GENERATION_ERROR: 503 Service Unavailable"

\* the rules in the order the specification gives them, the default (either
\* of its two names) last: the categories that the first matching rule allows
\* for the failure; SAFETY_BLOCK is taken for a name of the third rule
ListedCategories(f) ==
  LET message == MessageOf(f)
  IN IF \E p \in {"API key", "unauthorized", "authentication"} : Includes(message, p)
       THEN {"AUTH_ERROR"}
     ELSE IF \E p \in {"quota", "rate", "429", "too many requests"} : Includes(message, p)
       THEN {"RATE_LIMIT"}
     ELSE IF \E p \in {"safety", "blocked", "content policy"} : Includes(message, p)
       THEN {"CONTENT_BLOCKED", "SAFETY_BLOCK"}
     ELSE IF f.status = 422 \/ Includes(message, "invalid") \/ Includes(message, "422")
       THEN {"VALIDATION_ERROR"}
     ELSE IF Includes(message, "TIMEOUT") \/ Includes(message, "timed out")
       THEN {"TIMEOUT"}
     ELSE {"API_ERROR", "GENERATION_ERROR"}

\* C27: every classification gives the category of the first rule that the
\* failure matches in the order AUTH_ERROR, RATE_LIMIT, CONTENT_BLOCKED,
\* VALIDATION_ERROR, TIMEOUT, default.
C27_FirstMatchingRuleWins ==
  pc = "classified" => category \in ListedCategories(failure)

\* call c has returned a success result
CallSucceeded(c) == calls[c].pc = "done" /\ ~calls[c].result.isError

\* the file call c leaves behind when it runs alone
OwnFile(c) ==
  [path |-> calls[c].outputPath,
   bytes |-> "bytes of https://v3.fal.media/files/call" \o NumToString(c)]

C29_PayloadMatchesEndpoint ==
  upstreamCalls > 0
    => /\ "image_urls" \in input.keys
            <=> modelId \in {"fal-ai/nano-banana/edit", "fal-ai/nano-banana-pro/edit"}
       /\ "image_urls" \in input.keys
            => Len(input.image_urls) = Len(opts.referenceImages)
       /\ "resolution" \in input.keys <=> opts.model = "nano-banana-pro"
       /\ "resolution" \in input.keys => input.resolution = opts.resolution
       /\ "enable_web_search" \in input.keys
            => (opts.model = "nano-banana-pro" /\ opts.enableWebSearch)

\* a pro edit request with web search and a 2K resolution went upstream
C29_Witness ==
  /\ upstreamCalls > 0
  /\ modelId = "fal-ai/nano-banana-pro/edit"
  /\ input.keys = {"prompt", "output_format", "num_images", "image_urls", "resolution",
                   "enable_web_search"}
  /\ input.resolution = "2K"

\* C30: a generate request that has succeeded returned its outputPath as
\* imagePath, the file at outputPath holds the bytes of image 0 of the
\* response, and the files it wrote went to pairwise distinct paths, whether
\* or not outputPath has an extension.
C30_PrimaryFileKept ==
  (entry # "none" /\ pc = "done" /\ ~result.isError)
    => /\ result.imagePath = opts.outputPath
       /\ [path |-> opts.outputPath, bytes |-> "bytes of " \o response.images[1]] \in files
       /\ \A j \in 1..Len(writes) : \A k \in 1..Len(writes) :
             j # k => writes[j].path # writes[k].path

====
